---- MODULE Spec2Model ----
(***************************************************************************)
(* Model of src/main.py: the FastAPI application "Tag Team Image Analysis  *)
(* API".  One endpoint, POST /analyze (analyze_image), chains two remote   *)
(* inference calls (image_to_text, chat_completion) made through one       *)
(* process-wide AsyncInferenceClient created by lifespan().                *)
(*                                                                         *)
(* Text is modelled as a sequence of tokens: a token is either one         *)
(* character of a variable text (an upstream result, an error text, a      *)
(* content type) or one whole string literal of the source.  Python values *)
(* are tagged records [t |-> type name, v |-> payload].                    *)
(*                                                                         *)
(* A coroutine runs without interruption between two awaits, so there is   *)
(* one action per stretch of analyze_image between suspension points.      *)
(***************************************************************************)
EXTENDS Integers, Sequences, FiniteSets, TLC

\* Number of requests the dispatcher runs (concurrently).
NumRequests == 2
\* Longest text an upstream model returns.
MaxLen == 2

Requests == 1..NumRequests

-----------------------------------------------------------------------------
(* Python values *)

None == [t |-> "NoneType", v |-> <<>>]

Str(s) == [t |-> "str", v |-> s]

\* The bytes object holding the upload's content b.
Bytes(b) == [t |-> "bytes", v |-> <<b>>]

\* A result object that is no str (it has no strip method).
NonText == [t |-> "object", v |-> <<>>]

\* A chat-completion reply: v is the list of choices, each choice given by
\* its message.content (a str or None).
ChatCompletionOutput(choices) == [t |-> "ChatCompletionOutput", v |-> choices]

\* str.isspace of one character
IsSpace(c) == c \in {" ", "\t"}

RECURSIVE lstrip(_)
lstrip(s) == IF s # <<>> /\ IsSpace(Head(s)) THEN lstrip(Tail(s)) ELSE s

RECURSIVE rstrip(_)
rstrip(s) ==
    IF s # <<>> /\ IsSpace(s[Len(s)]) THEN rstrip(SubSeq(s, 1, Len(s) - 1)) ELSE s

\* Faulty variant of strip: the trailing blanks stay.
strip_leading_only(s) == lstrip(s)

\* str.strip() with no argument
strip(s) == rstrip(lstrip(s))

\* str.startswith(prefix)
startswith(s, prefix) ==
    /\ Len(s) >= Len(prefix)
    /\ SubSeq(s, 1, Len(prefix)) = prefix

-----------------------------------------------------------------------------
(* Exceptions and responses *)

HTTP_400_BAD_REQUEST == 400
HTTP_500_INTERNAL_SERVER_ERROR == 500
HTTP_503_SERVICE_UNAVAILABLE == 503
HTTP_200_OK == 200

\* An exception that is no HTTPException; detail holds its str(e).
Exc(cls, text) == [cls |-> cls, status_code |-> 0, detail |-> text]

HTTPException(status_code, detail) ==
    [cls |-> "HTTPException", status_code |-> status_code, detail |-> detail]

NoExc == [cls |-> "none", status_code |-> 0, detail |-> <<>>]

\* str(e) of an exception that is no HTTPException
str(e) == e.detail

\* Outcome of a piece of code: it returns val or raises exc.
Return(val) == [out |-> "return", val |-> val, exc |-> NoExc]

Raise(exc) == [out |-> "raise", val |-> None, exc |-> exc]

NoResponse ==
    [kind |-> "none", status_code |-> 0, detail |-> <<>>,
     vision_output |-> None, final_answer |-> None]

\* The framework's answer to an HTTPException raised by the endpoint:
\* status_code with the JSON body {"detail": detail}.
ErrorResponse(he) ==
    [kind |-> "HTTPException", status_code |-> he.status_code, detail |-> he.detail,
     vision_output |-> None, final_answer |-> None]

\* The framework's answer to any other exception leaving the endpoint: the
\* server-error page "Internal Server Error", no JSON body, no detail.
UnhandledResponse ==
    [kind |-> "unhandled", status_code |-> HTTP_500_INTERNAL_SERVER_ERROR,
     detail |-> <<>>, vision_output |-> None, final_answer |-> None]

\* The answer to the dict the endpoint returns.
JSONResponse(vision_output, final_answer) ==
    [kind |-> "json", status_code |-> HTTP_200_OK, detail |-> <<>>,
     vision_output |-> vision_output, final_answer |-> final_answer]

\* What the client receives when exception exc leaves analyze_image.
Escapes(exc) ==
    IF exc.cls = "HTTPException" THEN ErrorResponse(exc) ELSE UnhandledResponse

-----------------------------------------------------------------------------
(* Module-level configuration *)

VISION_MODEL == "microsoft/Florence-2-large"

LOGIC_MODEL == "Qwen/Qwen2.5-3B-Instruct"

\* os.getenv("HF_API_KEY"): unset, set to the empty string, or set.
KeyValues == {None, Str(<<>>), Str(<<"k">>)}

AsyncInferenceClient(token) == [t |-> "AsyncInferenceClient", v |-> token]

-----------------------------------------------------------------------------
(* Inputs: uploads and upstream replies *)

ImageSlash == <<"i", "m", "a", "g", "e", "/">>

\* file.content_type: the part's Content-Type header, None when the part has
\* none.
ContentTypes ==
    { None,
      Str(ImageSlash \o <<"p">>),
      Str(<<"t", "e", "x", "t", "/", "p">>),
      Str(<<"i", "m", "a", "g", "e">>) }

UploadBytes == {"bytes0"}

Files == [content_type : ContentTypes, bytes : UploadBytes]

NoFile == [content_type |-> None, bytes |-> ""]

Alphabet == {" ", "a"}

Texts == UNION { [1..n -> Alphabet] : n \in 0..MaxLen }

\* Errors the upstream calls raise (subclasses of Exception); a timeout has
\* an empty str().
UpstreamErrors == { Exc("TimeoutError", <<>>), Exc("HfHubHTTPError", <<"e">>) }

\* Errors file.read() raises.
ReadErrors == { Exc("OSError", <<"o">>) }

\* What image_to_text returns: a str, or an object that is none.
VisionResults == { Str(s) : s \in Texts } \cup {NonText}

\* The choices of the reply chat_completion returns.
LogicChoices == { <<>>, <<None>>, <<Str(<<"b">>), Str(<<"c">>)>> }

-----------------------------------------------------------------------------
VARIABLES
    HF_API_KEY,         \* module constant read from the environment at import
    hf_client,          \* global client handle, None until lifespan startup
    pc,                 \* pc[r]: the state request r is in
    hist,               \* hist[r]: the states request r has entered, in order
    file,               \* file[r]: the upload of request r
    image_content,      \* local image_content, None while unassigned
    vision_result,      \* local vision_result, None while unassigned
    image_description,  \* local image_description, None while unassigned
    response,           \* what the client of request r receives
    log,                \* log[r]: records request r has written to logger
    reads,              \* reads[r]: number of file.read() calls
    visionCalls,        \* visionCalls[r]: arguments of each image_to_text call
    logicCalls,         \* logicCalls[r]: arguments of each chat_completion call
    stub                \* replies the upstream stubs have given, by arguments

vars ==
    <<HF_API_KEY, hf_client, pc, hist, file, image_content, vision_result,
      image_description, response, log, reads, visionCalls, logicCalls,
      stub>>

\* The local variables of the running coroutines
locals == <<image_content, vision_result, image_description>>

-----------------------------------------------------------------------------
(* The pieces of analyze_image *)

ConfigDetail == <<"Server configuration error: HF_API_KEY is missing.">>

InvalidTypeDetail == <<"Invalid file type. Please upload an image.">>

UnexpectedDetail == <<"An unexpected error occurred processing your request.">>

VisionPrefix == "Vision model service failed: "

LogicPrefix == "Logic model service failed: "

\* not HF_API_KEY
ConfigMissing(key) == key.t = "NoneType" \/ (key.t = "str" /\ key.v = <<>>)

\* Faulty variant of IsImageType: the prefix lacks its slash.
IsImageType_NoSlash(ct) == startswith(ct.v, <<"i", "m", "a", "g", "e">>)

\* content_type.startswith("image/"), content_type a str
IsImageType(ct) == startswith(ct.v, ImageSlash)

\* Faulty variant of Validation: the content type is checked first.
Validation_ContentTypeFirst(key, ct) ==
    IF ct.t # "str"
    THEN Raise(Exc("AttributeError",
                   <<"'NoneType' object has no attribute 'startswith'">>))
    ELSE IF ~IsImageType(ct)
    THEN Raise(HTTPException(HTTP_400_BAD_REQUEST, InvalidTypeDetail))
    ELSE IF ConfigMissing(key)
    THEN Raise(HTTPException(HTTP_500_INTERNAL_SERVER_ERROR, ConfigDetail))
    ELSE Return(None)

\* Faulty variant of Validation: the configuration is not checked.
Validation_NoConfigCheck(key, ct) ==
    IF ct.t # "str"
    THEN Raise(Exc("AttributeError",
                   <<"'NoneType' object has no attribute 'startswith'">>))
    ELSE IF ~IsImageType(ct)
    THEN Raise(HTTPException(HTTP_400_BAD_REQUEST, InvalidTypeDetail))
    ELSE Return(None)

\* The two checks that precede the outer try.  content_type None has no
\* startswith attribute: the attribute lookup raises AttributeError.
Validation(key, ct) ==
    IF ConfigMissing(key)
    THEN Raise(HTTPException(HTTP_500_INTERNAL_SERVER_ERROR, ConfigDetail))
    ELSE IF ct.t # "str"
    THEN Raise(Exc("AttributeError",
                   <<"'NoneType' object has no attribute 'startswith'">>))
    ELSE IF ~IsImageType(ct)
    THEN Raise(HTTPException(HTTP_400_BAD_REQUEST, InvalidTypeDetail))
    ELSE Return(None)

\* Faulty variant of StageOneBody: an error is swallowed and the
\* description left empty.
StageOneBody_ErrorIgnored(reply) ==
    IF reply.out = "raise" \/ reply.val.t # "str" THEN Return(Str(<<>>))
    ELSE Return(Str(strip(reply.val.v)))

\* Body of the stage-1 try, from the reply of image_to_text on: the result
\* is stripped; a result without a strip method raises AttributeError.
StageOneBody(reply) ==
    IF reply.out = "raise" THEN Raise(reply.exc)
    ELSE IF reply.val.t # "str"
    THEN Raise(Exc("AttributeError", <<"object has no attribute 'strip'">>))
    ELSE Return(Str(strip(reply.val.v)))

\* except Exception as e of stage 1
VisionFailure(e) ==
    HTTPException(HTTP_503_SERVICE_UNAVAILABLE, <<VisionPrefix>> \o str(e))

\* Faulty variant of Prompt: an empty description gets a prompt of its own.
Prompt_BranchesOnEmpty(description) ==
    IF description = <<>>
    THEN <<"User uploaded an image containing no text. Act as a helpful assistant.">>
    ELSE <<"User uploaded an image containing this text: ">> \o description
           \o <<". Act as a helpful assistant and answer the user's request based on this.">>

\* The prompt f-string
Prompt(description) ==
    <<"User uploaded an image containing this text: ">> \o description
        \o <<". Act as a helpful assistant and answer the user's request based on this.">>

\* The keyword arguments of the chat_completion call
ChatCompletionArgs(prompt) ==
    [model |-> LOGIC_MODEL,
     messages |-> << [role |-> "user", content |-> prompt] >>,
     max_tokens |-> 500,
     temperature |-> <<7, 10>>]

\* The keyword arguments of the image_to_text call
ImageToTextArgs(image) == [image |-> image, model |-> VISION_MODEL]

\* Body of the stage-2 try, from the reply of chat_completion on:
\* response.choices[0].message.content; an empty list raises IndexError.
StageTwoBody(reply) ==
    IF reply.out = "raise" THEN Raise(reply.exc)
    ELSE IF reply.val.v = <<>>
    THEN Raise(Exc("IndexError", <<"list index out of range">>))
    ELSE Return(reply.val.v[1])

\* Faulty variants of LogicFailure: the wrong status code; the detail of
\* the other stage.
LogicFailure_Status500(e) ==
    HTTPException(HTTP_500_INTERNAL_SERVER_ERROR, <<LogicPrefix>> \o str(e))

LogicFailure_VisionPrefix(e) ==
    HTTPException(HTTP_503_SERVICE_UNAVAILABLE, <<VisionPrefix>> \o str(e))

\* Faulty variant of LogicFailure: the except clause names the errors of
\* the call only, and an error of the extraction passes it by.
LogicFailure_CallErrorsOnly(e) ==
    IF e.cls \in {"TimeoutError", "HfHubHTTPError"}
    THEN HTTPException(HTTP_503_SERVICE_UNAVAILABLE, <<LogicPrefix>> \o str(e))
    ELSE e

\* except Exception as e of stage 2
LogicFailure(e) ==
    HTTPException(HTTP_503_SERVICE_UNAVAILABLE, <<LogicPrefix>> \o str(e))

\* The two except clauses of the outer try: an HTTPException is re-raised,
\* anything else becomes the fixed 500.
OuterHandler(exc) ==
    IF exc.cls = "HTTPException" THEN exc
    ELSE HTTPException(HTTP_500_INTERNAL_SERVER_ERROR, UnexpectedDetail)

\* What the outer handler logs for exc
OuterLog(exc) ==
    IF exc.cls = "HTTPException" THEN <<>>
    ELSE << [level |-> "ERROR", msg |-> <<"Unexpected error: ">> \o str(exc)] >>

Info(msg) == [level |-> "INFO", msg |-> msg]

Error(msg) == [level |-> "ERROR", msg |-> msg]

Warning(msg) == [level |-> "WARNING", msg |-> msg]

-----------------------------------------------------------------------------
(* Initial state: the module has been imported, the server has not started *)

App == 0

Init ==
    /\ HF_API_KEY \in KeyValues
    /\ hf_client = None
    /\ pc = [r \in Requests |-> "idle"]
    /\ hist = [r \in Requests |-> <<>>]
    /\ file = [r \in Requests |-> NoFile]
    /\ image_content = [r \in Requests |-> None]
    /\ vision_result = [r \in Requests |-> None]
    /\ image_description = [r \in Requests |-> None]
    /\ response = [r \in Requests |-> NoResponse]
    /\ log = [r \in {App} \cup Requests |-> <<>>]
    /\ reads = [r \in Requests |-> 0]
    /\ visionCalls = [r \in Requests |-> <<>>]
    /\ logicCalls = [r \in Requests |-> <<>>]
    /\ stub = [vision |-> {}, logic |-> {}]

\* Request r enters the states of path, ending in the last of them.
Enter(r, path) ==
    /\ pc' = [pc EXCEPT ![r] = path[Len(path)]]
    /\ hist' = [hist EXCEPT ![r] = @ \o path]

Logs(r, records) == log' = [log EXCEPT ![r] = @ \o records]

\* Locals with image_content, vision_result and image_description kept in
\* module-level names, as hf_client is: every request sees the last value
\* written.
Locals_Shared(r, ic, vr, id) ==
    /\ image_content' = [q \in Requests |-> ic]
    /\ vision_result' = [q \in Requests |-> vr]
    /\ image_description' = [q \in Requests |-> id]

\* The locals of request r become ic, vr, id.
Locals(r, ic, vr, id) ==
    /\ image_content' = [image_content EXCEPT ![r] = ic]
    /\ vision_result' = [vision_result EXCEPT ![r] = vr]
    /\ image_description' = [image_description EXCEPT ![r] = id]

\* analyze_image ends for request r with answer resp: its frame, and with
\* it its locals, is gone.
Respond(r, resp) ==
    /\ response' = [response EXCEPT ![r] = resp]
    /\ Locals(r, None, None, None)

\* lifespan(), up to its yield
Lifespan ==
    /\ hf_client = None
    /\ hf_client' = AsyncInferenceClient(HF_API_KEY)
    /\ Logs(App,
            (IF ConfigMissing(HF_API_KEY)
             THEN << Warning(<<"HF_API_KEY not found in environment variables. Functionality will be limited.">>) >>
             ELSE <<>>)
            \o << Info(<<"Hugging Face client initialized.">>) >>)
    /\ UNCHANGED <<HF_API_KEY, pc, hist, file, locals, response, reads,
                   visionCalls, logicCalls, stub>>

\* The dispatcher hands a parsed multipart upload to analyze_image.
Receive(r) ==
    /\ hf_client # None
    /\ pc[r] = "idle"
    /\ \E f \in Files : file' = [file EXCEPT ![r] = f]
    /\ Enter(r, <<"Received">>)
    /\ UNCHANGED <<HF_API_KEY, hf_client, locals, response, log, reads,
                   visionCalls, logicCalls, stub>>

\* From the start of analyze_image to the first await: both checks, then
\* file.read() is called.
Validate(r) ==
    /\ pc[r] = "Received"
    /\ LET v == Validation(HF_API_KEY, file[r].content_type) IN
         IF v.out = "raise"
         THEN /\ Respond(r, Escapes(v.exc))
              /\ Enter(r, <<"Responded">>)
              /\ UNCHANGED reads
         ELSE /\ reads' = [reads EXCEPT ![r] = @ + 1]
              /\ Enter(r, <<"Validated">>)
              /\ UNCHANGED <<response, locals>>
    /\ UNCHANGED <<HF_API_KEY, hf_client, file, log, visionCalls, logicCalls,
                   stub>>

\* The code from the answer rep of await file.read() to the next await: on
\* success the vision call is made, on an error the outer handler answers.
AfterRead(r, rep) ==
    /\ pc[r] = "Validated"
    /\ IF rep.out = "raise"
       THEN /\ Logs(r, OuterLog(rep.exc))
            /\ Respond(r, Escapes(OuterHandler(rep.exc)))
            /\ Enter(r, <<"Responded">>)
            /\ UNCHANGED visionCalls
       ELSE /\ Locals(r, rep.val, None, None)
            /\ Logs(r, << Info(<<"Sending image to Vision Model: ", VISION_MODEL>>) >>)
            /\ visionCalls' =
                 [visionCalls EXCEPT ![r] = Append(@, ImageToTextArgs(rep.val))]
            /\ Enter(r, <<"VisionCalled">>)
            /\ UNCHANGED response
    /\ UNCHANGED <<HF_API_KEY, hf_client, file, reads, logicCalls, stub>>

ReadReturns(r) == AfterRead(r, Return(Bytes(file[r].bytes)))

ReadRaises(r) == \E e \in ReadErrors : AfterRead(r, Raise(e))

\* AfterVision with an except clause that, besides raising the 503, takes
\* the failure for a bad token and drops it (global HF_API_KEY;
\* HF_API_KEY = None).
AfterVision_DropsKey(r, rep) ==
    LET body == StageOneBody(rep) IN
      /\ pc[r] = "VisionCalled"
      /\ IF body.out = "raise"
         THEN /\ Logs(r, << Error(<<"Vision Model failed: ">> \o str(body.exc)) >>)
              /\ Respond(r, Escapes(OuterHandler(VisionFailure(body.exc))))
              /\ Enter(r, <<"VisionFailed", "Responded">>)
              /\ HF_API_KEY' = None
              /\ UNCHANGED logicCalls
         ELSE /\ Locals(r, image_content[r], rep.val, body.val)
              /\ Logs(r, << Info(<<"Vision Model Output: ">> \o body.val.v),
                            Info(<<"Sending prompt to Logic Model: ", LOGIC_MODEL>>) >>)
              /\ logicCalls' =
                   [logicCalls EXCEPT
                      ![r] = Append(@, ChatCompletionArgs(Prompt(body.val.v)))]
              /\ Enter(r, <<"VisionSucceeded", "LogicCalled">>)
              /\ UNCHANGED <<response, HF_API_KEY>>
      /\ UNCHANGED <<hf_client, file, reads, visionCalls>>

\* AfterVision with a retry in place of the raise of line 99: a failed
\* stage 1 runs the handler again from its start, as a new attempt.
AfterVision_StartOver(r, rep) ==
    LET body == StageOneBody(rep) IN
      /\ pc[r] = "VisionCalled"
      /\ IF body.out = "raise"
         THEN /\ pc' = [pc EXCEPT ![r] = "Received"]
              /\ hist' = [hist EXCEPT ![r] = <<"Received">>]
              /\ log' = [log EXCEPT ![r] = <<>>]
              /\ reads' = [reads EXCEPT ![r] = 0]
              /\ visionCalls' = [visionCalls EXCEPT ![r] = <<>>]
              /\ Locals(r, None, None, None)
              /\ UNCHANGED <<response, logicCalls>>
         ELSE /\ Locals(r, image_content[r], rep.val, body.val)
              /\ Logs(r, << Info(<<"Vision Model Output: ">> \o body.val.v),
                            Info(<<"Sending prompt to Logic Model: ", LOGIC_MODEL>>) >>)
              /\ logicCalls' =
                   [logicCalls EXCEPT
                      ![r] = Append(@, ChatCompletionArgs(Prompt(body.val.v)))]
              /\ Enter(r, <<"VisionSucceeded", "LogicCalled">>)
              /\ UNCHANGED <<response, reads, visionCalls>>
      /\ UNCHANGED <<HF_API_KEY, hf_client, file>>

\* The code from the answer rep of await image_to_text(...) to the next
\* await: the rest of stage 1 and, on success, the chat_completion call.
AfterVision(r, rep) ==
    LET body == StageOneBody(rep) IN
      /\ pc[r] = "VisionCalled"
      /\ IF body.out = "raise"
         THEN /\ Logs(r, << Error(<<"Vision Model failed: ">> \o str(body.exc)) >>)
              /\ Respond(r, Escapes(OuterHandler(VisionFailure(body.exc))))
              /\ Enter(r, <<"VisionFailed", "Responded">>)
              /\ UNCHANGED logicCalls
         ELSE /\ Locals(r, image_content[r], rep.val, body.val)
              /\ Logs(r, << Info(<<"Vision Model Output: ">> \o body.val.v),
                            Info(<<"Sending prompt to Logic Model: ", LOGIC_MODEL>>) >>)
              /\ logicCalls' =
                   [logicCalls EXCEPT
                      ![r] = Append(@, ChatCompletionArgs(Prompt(body.val.v)))]
              /\ Enter(r, <<"VisionSucceeded", "LogicCalled">>)
              /\ UNCHANGED response
      /\ UNCHANGED <<HF_API_KEY, hf_client, file, reads, visionCalls>>

\* The upstream answers freely: a call tells nothing about the next one.
VisionReturns(r) ==
    /\ \E val \in VisionResults : AfterVision(r, Return(val))
    /\ UNCHANGED stub

VisionRaises(r) ==
    /\ \E e \in UpstreamErrors : AfterVision(r, Raise(e))
    /\ UNCHANGED stub

\* AfterLogic with one more attempt: the first failure of stage 2 is logged
\* and the chat_completion call made again.
AfterLogic_RetriesOnce(r, rep) ==
    LET body == StageTwoBody(rep) IN
      /\ pc[r] = "LogicCalled"
      /\ IF body.out = "raise" /\ Len(logicCalls[r]) < 2
         THEN /\ Logs(r, << Error(<<"Logic Model failed: ">> \o str(body.exc)) >>)
              /\ logicCalls' = [logicCalls EXCEPT ![r] = Append(@, @[1])]
              /\ UNCHANGED <<pc, hist, response, locals>>
         ELSE /\ IF body.out = "raise"
                 THEN /\ Logs(r, << Error(<<"Logic Model failed: ">> \o str(body.exc)) >>)
                      /\ Respond(r, Escapes(OuterHandler(LogicFailure(body.exc))))
                      /\ Enter(r, <<"LogicFailed", "Responded">>)
                 ELSE /\ Logs(r, << Info(<<"Logic Model response received.">>) >>)
                      /\ Respond(r, JSONResponse(image_description[r], body.val))
                      /\ Enter(r, <<"LogicSucceeded", "Responded">>)
              /\ UNCHANGED logicCalls
      /\ UNCHANGED <<HF_API_KEY, hf_client, file, reads, visionCalls>>

\* The code from the answer rep of await chat_completion(...) to the end of
\* analyze_image.
AfterLogic(r, rep) ==
    LET body == StageTwoBody(rep) IN
      /\ pc[r] = "LogicCalled"
      /\ IF body.out = "raise"
         THEN /\ Logs(r, << Error(<<"Logic Model failed: ">> \o str(body.exc)) >>)
              /\ Respond(r, Escapes(OuterHandler(LogicFailure(body.exc))))
              /\ Enter(r, <<"LogicFailed", "Responded">>)
         ELSE /\ Logs(r, << Info(<<"Logic Model response received.">>) >>)
              /\ Respond(r, JSONResponse(image_description[r], body.val))
              /\ Enter(r, <<"LogicSucceeded", "Responded">>)
      /\ UNCHANGED <<HF_API_KEY, hf_client, file, reads, visionCalls,
                     logicCalls>>

LogicReturns(r) ==
    /\ \E choices \in LogicChoices :
         AfterLogic(r, Return(ChatCompletionOutput(choices)))
    /\ UNCHANGED stub

LogicRaises(r) ==
    /\ \E e \in UpstreamErrors : AfterLogic(r, Raise(e))
    /\ UNCHANGED stub

Next ==
    \/ Lifespan
    \/ \E r \in Requests :
         \/ Receive(r)
         \/ Validate(r)
         \/ ReadReturns(r)
         \/ ReadRaises(r)
         \/ VisionReturns(r)
         \/ VisionRaises(r)
         \/ LogicReturns(r)
         \/ LogicRaises(r)

Spec == Init /\ [][Next]_vars

\* The steps of analyze_image for request r, once it is received.
Handler(r) ==
    \/ Validate(r)
    \/ ReadReturns(r)
    \/ ReadRaises(r)
    \/ VisionReturns(r)
    \/ VisionRaises(r)
    \/ LogicReturns(r)
    \/ LogicRaises(r)

\* The upstream replaced by deterministic stubs: a stub answers a call as it
\* answered every earlier call with the same arguments.
VisionReplies ==
    { Return(val) : val \in VisionResults } \cup { Raise(e) : e \in UpstreamErrors }

LogicReplies ==
    { Return(ChatCompletionOutput(choices)) : choices \in LogicChoices }
      \cup { Raise(e) : e \in UpstreamErrors }

\* rep is what the stub with the answers of table gives for args.
Stubbed(table, args, rep) == \A a \in table : a.args = args => a.reply = rep

StubbedVision(r) ==
    /\ pc[r] = "VisionCalled"
    /\ \E rep \in VisionReplies :
         /\ Stubbed(stub.vision, visionCalls[r][1], rep)
         /\ AfterVision(r, rep)
         /\ stub' = [stub EXCEPT
                       !.vision = @ \cup {[args |-> visionCalls[r][1], reply |-> rep]}]

StubbedLogic(r) ==
    /\ pc[r] = "LogicCalled"
    /\ \E rep \in LogicReplies :
         /\ Stubbed(stub.logic, logicCalls[r][1], rep)
         /\ AfterLogic(r, rep)
         /\ stub' = [stub EXCEPT
                       !.logic = @ \cup {[args |-> logicCalls[r][1], reply |-> rep]}]

ReplayNext ==
    \/ Lifespan
    \/ \E r \in Requests :
         \/ Receive(r)
         \/ Validate(r)
         \/ ReadReturns(r)
         \/ ReadRaises(r)
         \/ StubbedVision(r)
         \/ StubbedLogic(r)

ReplaySpec == Init /\ [][ReplayNext]_vars

\* The event loop does not stop while a handler can run, and every awaited
\* call (the upload read, the two inference calls) eventually returns or
\* raises: a step of some handler is eventually taken while one is possible.
FairSpec == Spec /\ WF_vars(\E r \in Requests : Handler(r))

-----------------------------------------------------------------------------
(* Vocabulary of the properties, stated without the operators above *)

\* The configuration secret is present: a non-empty string.
KeyPresent == HF_API_KEY.t = "str" /\ HF_API_KEY.v # <<>>

\* The configuration secret is absent: unset, or set to nothing.
KeyAbsent == HF_API_KEY.t = "NoneType" \/ HF_API_KEY.v = <<>>

\* The upload of request r declares a content type.
DeclaresType(r) == file[r].content_type.t = "str"

\* The declared content type of request r starts with "image/".
DeclaresImage(r) ==
    LET ct == file[r].content_type.v IN
      /\ DeclaresType(r)
      /\ Len(ct) >= 6
      /\ ct[1] = "i" /\ ct[2] = "m" /\ ct[3] = "a" /\ ct[4] = "g" /\ ct[5] = "e"
      /\ ct[6] = "/"

\* Request r has made no call: no read of the upload, no inference call.
NoCalls(r) == reads[r] = 0 /\ visionCalls[r] = <<>> /\ logicCalls[r] = <<>>

\* The error answer with the given status code and detail.
ErrorAnswer(code, detail) ==
    [kind |-> "HTTPException", status_code |-> code, detail |-> detail,
     vision_output |-> None, final_answer |-> None]

Arrived(r) == pc[r] # "idle"

Checked(r) == pc[r] \notin {"idle", "Received"}

-----------------------------------------------------------------------------
\* C1: with the secret present, a request whose declared content type does
\* not start with "image/" ends with HTTP 400 and the detail "Invalid file
\* type. Please upload an image."; it never reads the upload and makes
\* neither the vision call nor the logic call.
C1_NonImageRejected ==
    \A r \in Requests :
      (KeyPresent /\ Arrived(r) /\ DeclaresType(r) /\ ~DeclaresImage(r)) =>
        /\ NoCalls(r)
        /\ Checked(r) =>
             /\ pc[r] = "Responded"
             /\ response[r] =
                  ErrorAnswer(400, <<"Invalid file type. Please upload an image.">>)

C1_Witness ==
    \E r \in Requests :
      /\ KeyPresent /\ DeclaresType(r) /\ ~DeclaresImage(r)
      /\ file[r].content_type.v # <<>>
      /\ pc[r] = "Responded"
      /\ response[r].status_code = 400

\* C2: with the secret absent every request ends with HTTP 500 and the
\* detail "Server configuration error: HF_API_KEY is missing.", whatever the
\* upload; the check precedes the content-type check (a non-image upload gets
\* 500, not 400); the upload is not read and no inference call is made.
C2_MissingConfiguration ==
    \A r \in Requests :
      KeyAbsent =>
        /\ NoCalls(r)
        /\ Checked(r) =>
             /\ pc[r] = "Responded"
             /\ response[r] =
                  ErrorAnswer(500, <<"Server configuration error: HF_API_KEY is missing.">>)

C2_Witness ==
    \E r \in Requests :
      /\ HF_API_KEY.t = "NoneType"
      /\ DeclaresType(r) /\ ~DeclaresImage(r)
      /\ pc[r] = "Responded"
      /\ response[r].status_code = 500

\* The states request r has entered end with the states of path.
EndsWith(r, path) ==
    /\ Len(hist[r]) >= Len(path)
    /\ SubSeq(hist[r], Len(hist[r]) - Len(path) + 1, Len(hist[r])) = path

\* Request r has entered state st.
Entered(r, st) == \E i \in 1..Len(hist[r]) : hist[r][i] = st

\* C3: if the vision call raises an error e (a timeout included), the
\* request ends with HTTP 503 and the detail "Vision model service failed: "
\* followed by the text of e, and the logic call is never made for it.
C3_VisionFailure ==
    /\ [][\A r \in Requests : \A e \in UpstreamErrors :
            AfterVision(r, Raise(e)) =>
              /\ pc'[r] = "Responded"
              /\ response'[r] =
                   ErrorAnswer(503, <<"Vision model service failed: ">> \o e.detail)
              /\ logicCalls'[r] = <<>>]_vars
    /\ [](\A r \in Requests :
            Entered(r, "VisionFailed") =>
              /\ pc[r] = "Responded"
              /\ response[r].status_code = 503
              /\ logicCalls[r] = <<>>)

C3_Witness ==
    \E r \in Requests :
      /\ EndsWith(r, <<"VisionCalled", "VisionFailed", "Responded">>)
      /\ response[r] = ErrorAnswer(503, <<"Vision model service failed: ", "e">>)
      /\ logicCalls[r] = <<>>

\* C4: if the vision call succeeded and the logic call raises an error e,
\* the request ends with HTTP 503 and the detail "Logic model service
\* failed: " followed by the text of e; the answer carries neither
\* vision_output nor final_answer.
C4_LogicFailure ==
    /\ [][\A r \in Requests : \A e \in UpstreamErrors :
            AfterLogic(r, Raise(e)) =>
              /\ Entered(r, "VisionSucceeded")
              /\ pc'[r] = "Responded"
              /\ response'[r] =
                   ErrorAnswer(503, <<"Logic model service failed: ">> \o e.detail)]_vars
    /\ [](\A r \in Requests :
            Entered(r, "LogicFailed") =>
              /\ pc[r] = "Responded"
              /\ response[r].kind = "HTTPException"
              /\ response[r].status_code = 503
              /\ response[r].vision_output = None
              /\ response[r].final_answer = None)

C4_Witness ==
    \E r \in Requests :
      /\ EndsWith(r, <<"VisionSucceeded", "LogicCalled", "LogicFailed", "Responded">>)
      /\ response[r] = ErrorAnswer(503, <<"Logic model service failed: ", "e">>)
      /\ Len(logicCalls[r]) = 1

\* A blank character, as the properties understand it.
Blank(c) == c = " " \/ c = "\t"

\* t neither starts nor ends with a blank; and t is s without its leading
\* and trailing blanks: s is blanks, then t, then blanks.
Trimmed(t) == t = <<>> \/ (~Blank(t[1]) /\ ~Blank(t[Len(t)]))

IsTrimOf(t, s) ==
    /\ Trimmed(t)
    /\ \E i \in 0..Len(s) : \E j \in 0..(Len(s) - i) :
         /\ \A k \in 1..i : Blank(s[k])
         /\ \A k \in (Len(s) - j + 1)..Len(s) : Blank(s[k])
         /\ t = SubSeq(s, i + 1, Len(s) - j)

\* C5: when validation passes and both stages succeed the request ends with
\* HTTP 200 and exactly the pair {vision_output, final_answer}: vision_output
\* is the stage-1 text without its leading and trailing whitespace,
\* final_answer is the message content of the first choice of the stage-2
\* reply; that path produces no other outcome.
C5_Success ==
    /\ [][\A r \in Requests : \A s \in Texts :
            AfterVision(r, Return(Str(s))) =>
              /\ pc'[r] = "LogicCalled"
              /\ image_description'[r].t = "str"
              /\ IsTrimOf(image_description'[r].v, s)]_vars
    /\ [][\A r \in Requests : \A choices \in LogicChoices :
            (choices # <<>> /\ AfterLogic(r, Return(ChatCompletionOutput(choices)))) =>
              /\ pc'[r] = "Responded"
              /\ response'[r] =
                   [kind |-> "json", status_code |-> 200, detail |-> <<>>,
                    vision_output |-> image_description[r],
                    final_answer |-> choices[1]]]_vars
    /\ [](\A r \in Requests :
            /\ pc[r] = "LogicCalled" =>
                 /\ vision_result[r].t = "str"
                 /\ image_description[r].t = "str"
                 /\ IsTrimOf(image_description[r].v, vision_result[r].v)
            /\ Entered(r, "LogicSucceeded") =>
                 /\ pc[r] = "Responded"
                 /\ KeyPresent /\ DeclaresImage(r)
                 /\ response[r].kind = "json"
                 /\ response[r].status_code = 200
                 /\ response[r].vision_output.t = "str"
                 /\ Trimmed(response[r].vision_output.v))

C5_Witness ==
    \E r1 \in Requests : \E r2 \in Requests :
      /\ pc[r1] = "Responded"
      /\ response[r1] =
           [kind |-> "json", status_code |-> 200, detail |-> <<>>,
            vision_output |-> Str(<<"a">>), final_answer |-> Str(<<"b">>)]
      /\ pc[r2] = "LogicCalled"
      /\ vision_result[r2] = Str(<<" ", "a">>)
      /\ image_description[r2] = Str(<<"a">>)

\* Request r failed in stage st ("VisionFailed" or "LogicFailed") and was
\* answered.
FailedIn(r, st) == Entered(r, st) /\ pc[r] = "Responded"

\* C6 as stated: an error of the vision stage and an error of the logic
\* stage share no error code.
C6_NoSharedErrorCode ==
    \A r1 \in Requests : \A r2 \in Requests :
      (FailedIn(r1, "VisionFailed") /\ FailedIn(r2, "LogicFailed")) =>
        response[r1].status_code # response[r2].status_code

\* C6, amended: a vision-stage failure and a logic-stage failure both carry
\* the status code 503 and are told apart by the detail, which starts with
\* "Vision model service failed: " for the one and with "Logic model service
\* failed: " for the other; a stage-1 error (a timeout included) is never
\* answered with the logic detail, a stage-2 error never with the vision
\* detail.
C6_StageIsolation ==
    /\ [][\A r \in Requests : \A e \in UpstreamErrors :
            /\ AfterVision(r, Raise(e)) =>
                 /\ Entered(r, "VisionFailed")' /\ ~Entered(r, "LogicFailed")'
                 /\ response'[r].detail[1] = "Vision model service failed: "
            /\ AfterLogic(r, Raise(e)) =>
                 /\ Entered(r, "LogicFailed")' /\ ~Entered(r, "VisionFailed")'
                 /\ response'[r].detail[1] = "Logic model service failed: "]_vars
    /\ [](\A r \in Requests :
            /\ FailedIn(r, "VisionFailed") =>
                 /\ response[r].kind = "HTTPException"
                 /\ response[r].status_code = 503
                 /\ response[r].detail[1] = "Vision model service failed: "
            /\ FailedIn(r, "LogicFailed") =>
                 /\ response[r].kind = "HTTPException"
                 /\ response[r].status_code = 503
                 /\ response[r].detail[1] = "Logic model service failed: "
            /\ ~(Entered(r, "VisionFailed") /\ Entered(r, "LogicFailed")))

C6_Witness ==
    \E r1 \in Requests : \E r2 \in Requests :
      /\ FailedIn(r1, "VisionFailed") /\ FailedIn(r2, "LogicFailed")
      /\ response[r1].detail = <<"Vision model service failed: ">>
      /\ response[r2].detail = <<"Logic model service failed: ">>
      /\ response[r1].status_code = response[r2].status_code

\* The ways through the state machine: validation rejects; the read
\* fails; stage 1 fails; stage 2 fails; both succeed.
Ways ==
    { <<"Received", "Responded">>,
      <<"Received", "Validated", "Responded">>,
      <<"Received", "Validated", "VisionCalled", "VisionFailed", "Responded">>,
      <<"Received", "Validated", "VisionCalled", "VisionSucceeded", "LogicCalled",
        "LogicFailed", "Responded">>,
      <<"Received", "Validated", "VisionCalled", "VisionSucceeded", "LogicCalled",
        "LogicSucceeded", "Responded">> }

IsPrefix(h, w) == Len(h) <= Len(w) /\ h = SubSeq(w, 1, Len(h))

\* C7: every request follows Received -> Validated -> VisionCalled ->
\* VisionSucceeded | VisionFailed -> LogicCalled -> LogicSucceeded |
\* LogicFailed -> Responded: no inference call before both validation checks
\* have passed, the logic call only after the vision call has succeeded, and
\* no state is entered a second time.
C7_StateMachine ==
    /\ [](\A r \in Requests :
            /\ \E w \in Ways : IsPrefix(hist[r], w)
            /\ pc[r] = (IF hist[r] = <<>> THEN "idle" ELSE hist[r][Len(hist[r])])
            /\ \A i \in 1..Len(hist[r]) : \A j \in 1..Len(hist[r]) :
                 hist[r][i] = hist[r][j] => i = j
            /\ (reads[r] > 0 \/ visionCalls[r] # <<>> \/ logicCalls[r] # <<>>) =>
                 (KeyPresent /\ DeclaresImage(r) /\ Entered(r, "Validated"))
            /\ Len(visionCalls[r]) = (IF Entered(r, "VisionCalled") THEN 1 ELSE 0)
            /\ Len(logicCalls[r]) = (IF Entered(r, "LogicCalled") THEN 1 ELSE 0)
            /\ logicCalls[r] # <<>> =>
                 (Entered(r, "VisionSucceeded") /\ ~Entered(r, "VisionFailed")))
    /\ [][\A r \in Requests : IsPrefix(hist[r], hist'[r])]_vars

C7_Witness ==
    \E r \in Requests :
      /\ hist[r] = <<"Received", "Validated", "VisionCalled", "VisionSucceeded",
                     "LogicCalled", "LogicSucceeded", "Responded">>
      /\ Len(visionCalls[r]) = 1 /\ Len(logicCalls[r]) = 1

\* The request was answered by neither a success, nor a stage failure, nor
\* one of the two validation rejections: an exception that is no
\* HTTPException was raised outside both stage-specific try regions.
OtherException(r) ==
    /\ pc[r] = "Responded"
    /\ ~Entered(r, "VisionCalled")
    /\ KeyPresent
    /\ ~(DeclaresType(r) /\ ~DeclaresImage(r))

\* C8: an exception raised in the processing of a request outside both
\* stage-specific try regions ends the request with HTTP 500 and the fixed
\* detail "An unexpected error occurred processing your request."; the 503
\* of a stage passes through unchanged.
C8_UnexpectedBecomesFixed500 ==
    \A r \in Requests :
      /\ OtherException(r) =>
           response[r] =
             ErrorAnswer(500, <<"An unexpected error occurred processing your request.">>)
      /\ (FailedIn(r, "VisionFailed") \/ FailedIn(r, "LogicFailed")) =>
           response[r].status_code = 503

\* C8 within the outer try only: a failure of the upload read ends the
\* request with the fixed 500, without the text of the exception.
C8_ReadFailure ==
    [][\A r \in Requests : \A e \in ReadErrors :
         AfterRead(r, Raise(e)) =>
           /\ pc'[r] = "Responded"
           /\ response'[r] =
                ErrorAnswer(500, <<"An unexpected error occurred processing your request.">>)]_vars

\* C9: every error path ends with a classified error that carries a detail
\* string and one of the status codes 400, 500, 503, for every upload, one
\* that declares no content type included.
C9_EveryErrorClassified ==
    \A r \in Requests :
      (pc[r] = "Responded" /\ response[r].kind # "json") =>
        /\ response[r].kind = "HTTPException"
        /\ response[r].status_code \in {400, 500, 503}
        /\ response[r].detail # <<>>

\* C10: in every 200 answer vision_output and final_answer are non-null
\* strings; a stage-2 reply whose first choice has null content never gives
\* a success payload.
C10_SuccessFieldsAreStrings ==
    \A r \in Requests :
      response[r].kind = "json" =>
        /\ response[r].vision_output.t = "str"
        /\ response[r].final_answer.t = "str"

\* Request r has its terminal outcome: exactly one of the success payload,
\* an HTTP error raised by analyze_image, or the server's answer to an
\* exception that left analyze_image.
HasOutcome(r) ==
    /\ pc[r] = "Responded"
    /\ response[r].kind \in {"json", "HTTPException", "unhandled"}
    /\ response[r].status_code \in {200, 400, 500, 503}
    /\ response[r].kind = "json" <=> response[r].status_code = 200

\* C11: provided the upload read and every upstream call eventually returns
\* or raises, every received request eventually reaches one terminal
\* outcome, the success payload or one HTTP error; it has no outcome before
\* it is terminal, its outcome never changes afterwards, and it does not
\* stay in a non-terminal state forever: from some point on every request
\* that has arrived has its outcome.
C11_OneOutcomeEventually ==
    /\ <>[](\A r \in Requests : Arrived(r) => HasOutcome(r))
    /\ [](\A r \in Requests :
            /\ pc[r] = "Responded" => HasOutcome(r)
            /\ pc[r] # "Responded" => response[r] = NoResponse)
    /\ [][\A r \in Requests :
            pc[r] = "Responded" =>
              (pc'[r] = "Responded" /\ response'[r] = response[r])]_vars

C11_Witness ==
    \E r1 \in Requests : \E r2 \in Requests :
      /\ HasOutcome(r1) /\ response[r1].kind = "json"
      /\ HasOutcome(r2) /\ response[r2].kind = "HTTPException"
      /\ response[r2].status_code = 503

-----------------------------------------------------------------------------
\* Everything that belongs to request r alone.
Own(r) ==
    <<pc[r], hist[r], file[r], image_content[r], vision_result[r],
      image_description[r], response[r], log[r], reads[r], visionCalls[r],
      logicCalls[r]>>

\* The text between the first and the last piece of the prompt of the logic
\* call of request r.
Embedded(r) ==
    LET content == logicCalls[r][1].messages[1].content IN
      SubSeq(content, 2, Len(content) - 1)

\* C12: with requests interleaving at their suspension points, no step
\* taken after startup changes the shared client handle or the
\* configuration; a step of one request changes nothing that belongs to
\* another request; and what a request sends and answers is its own data:
\* the vision call carries its own upload, the logic call the trimmed text
\* its own vision call returned, and the success payload the description
\* that its own logic call carried.
C12_RequestsIsolated ==
    /\ [][hf_client # None =>
            (hf_client' = hf_client /\ HF_API_KEY' = HF_API_KEY)]_vars
    /\ [][\A q \in Requests : pc'[q] # pc[q] =>
            /\ log'[App] = log[App]
            /\ \A r \in Requests \ {q} : Own(r)' = Own(r)]_vars
    /\ [](\A r \in Requests :
            /\ visionCalls[r] # <<>> =>
                 visionCalls[r][1].image = [t |-> "bytes", v |-> <<file[r].bytes>>]
            /\ pc[r] \in {"Validated", "VisionCalled"} =>
                 /\ vision_result[r] = None
                 /\ image_description[r] = None
            /\ pc[r] = "VisionCalled" => image_content[r] = visionCalls[r][1].image
            /\ pc[r] = "LogicCalled" =>
                 /\ vision_result[r].t = "str"
                 /\ image_description[r].t = "str"
                 /\ IsTrimOf(image_description[r].v, vision_result[r].v)
                 /\ Embedded(r) = image_description[r].v
            /\ (pc[r] = "Responded" /\ response[r].kind = "json") =>
                 response[r].vision_output.v = Embedded(r))

\* Two requests are suspended at the logic call together, holding
\* different vision results.
C12_Witness ==
    \E r1 \in Requests : \E r2 \in Requests :
      /\ pc[r1] = "LogicCalled" /\ pc[r2] = "LogicCalled"
      /\ vision_result[r1] # vision_result[r2]
      /\ image_description[r1] # image_description[r2]

-----------------------------------------------------------------------------
\* The read of the upload of request r failed.
ReadFailed(r) == hist[r] = <<"Received", "Validated", "Responded">>

\* Requests r1 and r2 are answered and were the same request: the same
\* content type, the same bytes, read back the same way.
Replayed(r1, r2) ==
    /\ pc[r1] = "Responded" /\ pc[r2] = "Responded"
    /\ file[r1].content_type = file[r2].content_type
    /\ file[r1].bytes = file[r2].bytes
    /\ ReadFailed(r1) <=> ReadFailed(r2)

\* C13: with the upstream calls answered by deterministic stubs, two
\* requests with the same content type and the same upload bytes get the
\* same response, in whatever order they and the other requests are handled;
\* and no step of a request changes the configuration or the client handle,
\* the only state the handling of another request reads.
C13_ReplayGivesSameResponse ==
    /\ [](\A r1 \in Requests : \A r2 \in Requests :
            Replayed(r1, r2) => response[r1] = response[r2])
    /\ [][(\E q \in Requests : pc'[q] # pc[q]) =>
            UNCHANGED <<HF_API_KEY, hf_client>>]_vars

\* The same image upload has been answered twice, with the success payload
\* or with a stage error.
C13_Witness ==
    \E r1 \in Requests : \E r2 \in Requests :
      /\ r1 # r2
      /\ Replayed(r1, r2)
      /\ Entered(r1, "VisionCalled") /\ Entered(r2, "VisionCalled")
      /\ stub.vision # {}

-----------------------------------------------------------------------------
\* call is a stage-2 call with the fixed model, cap and temperature and one
\* message, of role "user", whose text is the fixed template around t.
IsLogicCallWith(call, t) ==
    /\ call.model = "Qwen/Qwen2.5-3B-Instruct"
    /\ call.max_tokens = 500
    /\ call.temperature = <<7, 10>>
    /\ Len(call.messages) = 1
    /\ call.messages[1].role = "user"
    /\ Len(call.messages[1].content) = Len(t) + 2
    /\ call.messages[1].content[1] =
         "User uploaded an image containing this text: "
    /\ SubSeq(call.messages[1].content, 2, Len(t) + 1) = t
    /\ call.messages[1].content[Len(t) + 2] =
         ". Act as a helpful assistant and answer the user's request based on this."

\* C14: whatever text s the vision call returns, empty and whitespace-only
\* texts included, the logic call is made next, once, and its arguments are
\* the fixed logic-model identifier, max_tokens 500, temperature 0.7 and
\* exactly one message of role "user" whose content is the fixed template
\* with the trimmed s embedded, never the untrimmed s.
C14_PromptFromTrimmedText ==
    [][\A r \in Requests : \A s \in Texts :
         AfterVision(r, Return([t |-> "str", v |-> s])) =>
           /\ pc'[r] = "LogicCalled"
           /\ Len(logicCalls'[r]) = 1
           /\ \E i \in 0..Len(s) : \E j \in i..Len(s) :
                /\ IsTrimOf(SubSeq(s, i + 1, j), s)
                /\ IsLogicCallWith(logicCalls'[r][1], SubSeq(s, i + 1, j))]_vars

\* The logic call has been made for a vision output of whitespace only, and
\* for one with whitespace around its text.
C14_Witness ==
    \E r1 \in Requests : \E r2 \in Requests :
      /\ pc[r1] = "LogicCalled" /\ pc[r2] = "LogicCalled"
      /\ vision_result[r1].v = <<" ">>
      /\ Len(logicCalls[r1]) = 1
      /\ Len(logicCalls[r1][1].messages[1].content) = 2
      /\ vision_result[r2].v \in {<<" ", "a">>, <<"a", " ">>}
      /\ Embedded(r2) = <<"a">>

-----------------------------------------------------------------------------
\* The answer resp is an HTTP error 503 whose detail starts with prefix.
Is503With(resp, prefix) ==
    /\ resp.kind = "HTTPException"
    /\ resp.status_code = 503
    /\ resp.detail # <<>>
    /\ resp.detail[1] = prefix

\* C15: a vision result that is no text, so that trimming it fails, ends
\* the request with the 503 of the vision stage and without a logic call; a
\* logic reply with an empty list of choices ends it with the 503 of the
\* logic stage; neither ends with the generic 500.
C15_MalformedReplyClassified ==
    /\ [][\A r \in Requests :
            AfterVision(r, Return([t |-> "object", v |-> <<>>])) =>
              /\ pc'[r] = "Responded"
              /\ Is503With(response'[r], "Vision model service failed: ")
              /\ logicCalls'[r] = <<>>]_vars
    /\ [][\A r \in Requests :
            AfterLogic(r, Return([t |-> "ChatCompletionOutput", v |-> <<>>])) =>
              /\ pc'[r] = "Responded"
              /\ Is503With(response'[r], "Logic model service failed: ")]_vars

C15_Witness ==
    \E r1 \in Requests : \E r2 \in Requests :
      /\ FailedIn(r1, "VisionFailed")
      /\ response[r1].detail =
           <<"Vision model service failed: ", "object has no attribute 'strip'">>
      /\ FailedIn(r2, "LogicFailed")
      /\ response[r2].detail =
           <<"Logic model service failed: ", "list index out of range">>

-----------------------------------------------------------------------------
\* Request r has been answered with an error.
AnsweredWithError(r) == pc[r] = "Responded" /\ response[r].kind # "json"

\* The log holds a record of the failure of request r: an ERROR record
\* written in its handling or, for a missing secret, the WARNING written at
\* startup.
FailureLogged(r) ==
    \/ \E i \in 1..Len(log[r]) : log[r][i].level = "ERROR"
    \/ /\ KeyAbsent
       /\ \E i \in 1..Len(log[App]) : log[App][i].level = "WARNING"

\* C16: on every error path (missing configuration, invalid content type,
\* vision failure, logic failure, unclassified error) the failure is on the
\* server-side log when the error response is produced.
C16_EveryErrorLogged ==
    \A r \in Requests : AnsweredWithError(r) => FailureLogged(r)

\* C16 for the errors handled inside the outer try only: a failure of the
\* read, of the vision stage or of the logic stage is logged, with the text
\* of the exception, in the step that produces the error response.
C16_HandledErrorsLogged ==
    \A r \in Requests :
      (AnsweredWithError(r) /\ Entered(r, "Validated")) =>
        /\ log[r] # <<>>
        /\ log[r][Len(log[r])].level = "ERROR"
        /\ log[r][Len(log[r])].msg[1] \in
             {"Vision Model failed: ", "Logic Model failed: ", "Unexpected error: "}

-----------------------------------------------------------------------------
\* The read and the calls request r has made so far.
Attempts(r) == <<reads[r], Len(visionCalls[r]), Len(logicCalls[r])>>

\* C17: within one request the upload is read at most once and the vision
\* call and the logic call are made at most once each; when a stage fails
\* the request is answered in that step, and an answered request reads and
\* calls nothing more: no failure is retried.
C17_NoRetry ==
    /\ [](\A r \in Requests :
            /\ reads[r] <= 1
            /\ Len(visionCalls[r]) <= 1
            /\ Len(logicCalls[r]) <= 1)
    /\ [][\A r \in Requests : \A e \in UpstreamErrors :
            ( AfterVision(r, [out |-> "raise", val |-> None, exc |-> e])
              \/ AfterLogic(r, [out |-> "raise", val |-> None, exc |-> e]) ) =>
              /\ pc'[r] = "Responded"
              /\ Attempts(r)' = Attempts(r)]_vars
    /\ [][\A r \in Requests :
            pc[r] = "Responded" => Attempts(r)' = Attempts(r)]_vars

\* One request failed in the vision call and one in the logic call; each
\* made the failed call once.
C17_Witness ==
    \E r1 \in Requests : \E r2 \in Requests :
      /\ FailedIn(r1, "VisionFailed") /\ Attempts(r1) = <<1, 1, 0>>
      /\ FailedIn(r2, "LogicFailed") /\ Attempts(r2) = <<1, 1, 1>>

====
